---- MODULE Spec2Model ----
(***************************************************************************)
(* Dispatch-and-pipeline logic of the Telegram webhook relay               *)
(* (app/main.py): POST /telegram/webhook, the chat handlers cmd_start and  *)
(* on_text, POST /url-upload, download_video and upload_to_youtube.        *)
(*                                                                         *)
(* A text is a sequence of lexical tokens: " " is one whitespace           *)
(* character, "a" one ordinary non-whitespace character, "http://" the     *)
(* scheme the pattern https?:// matches, "/start" and "/help" the text of  *)
(* a bot command.  Every request is a record of its input, its program     *)
(* position (pc), its local variables and a log of the calls it made.      *)
(***************************************************************************)
EXTENDS Naturals, Sequences, FiniteSets

\* ------------------------------------------------------------- bounds
MaxLen == 4
MaxChunks == 2
NumReq == 2
NumNames == 2

Req == 1 .. NumReq
Names == 1 .. NumNames

\* ------------------------------------------------------------- data
Tokens == {" ", "a", "http://", "/start", "/help"}
CommandTokens == {"/start", "/help"}

RECURSIVE SeqsUpTo(_, _)
SeqsUpTo(S, n) ==
    IF n = 0 THEN {<<>>}
    ELSE LET shorter == SeqsUpTo(S, n - 1)
         IN  shorter \cup {Append(s, t) : s \in {x \in shorter : Len(x) = n - 1}, t \in S}

Texts == SeqsUpTo(Tokens, MaxLen)

EnvVars == <<"YT_CLIENT_ID", "YT_CLIENT_SECRET", "YT_REFRESH_TOKEN">>
EnvNames == {EnvVars[i] : i \in 1 .. Len(EnvVars)}

WEBHOOK_SECRET_TOKEN == "good"
SecretHeaders == {"absent", "good", "bad"}

\* A local path variable: not yet bound, None (dir = 0), or a file in directory dir.
Unbound == [bound |-> FALSE, dir |-> 0]
NoPath == [bound |-> TRUE, dir |-> 0]
FileIn(d) == [bound |-> TRUE, dir |-> d]

\* The body of a webhook request: bytes that are well-formed JSON or not, and the
\* update they decode to: with or without a message, the message's text (<<>>:
\* none) and whether its first entity is a bot_command at offset 0.
MalformedBody == [json |-> FALSE, hasMsg |-> FALSE, text |-> <<>>, cmdEntity |-> FALSE]
NoMessage == [json |-> TRUE, hasMsg |-> FALSE, text |-> <<>>, cmdEntity |-> FALSE]
Messages ==
    {[json |-> TRUE, hasMsg |-> TRUE, text |-> t, cmdEntity |-> c] :
        t \in Texts, c \in BOOLEAN} \ 
    {m \in [json : {TRUE}, hasMsg : {TRUE}, text : Texts, cmdEntity : {TRUE}] :
        m.text = <<>> \/ m.text[1] \notin CommandTokens}
Bodies == {MalformedBody, NoMessage} \cup Messages

SampleUrl == <<"http://", "a">>
UrlFields == {<<>>, SampleUrl}

GREETING == <<"Hello! Send me text or a URL.">>
PROCESSING == <<"URL detected. Downloading video...">>
LinkReply(vid) == <<"Uploaded successfully!", "https://youtu.be/", vid>>
ErrorReply(e) == <<"Error: ", e>>
VideoId == "id"

\* ------------------------------------------------------------- pure functions
process_text(text) == <<"bhola ">> \o text

RECURSIVE lstrip(_)
lstrip(s) == IF s # <<>> /\ Head(s) = " " THEN lstrip(Tail(s)) ELSE s

RECURSIVE rstrip(_)
rstrip(s) ==
    IF s # <<>> /\ s[Len(s)] = " " THEN rstrip(SubSeq(s, 1, Len(s) - 1)) ELSE s

\* Variant of strip that leaves trailing whitespace.
strip_leading_only(s) == lstrip(s)

strip(s) == rstrip(lstrip(s))

\* re.search(r"(https?://\S+)", text): the leftmost scheme followed by at least
\* one non-whitespace character; \S+ is greedy.
MatchStarts(text) ==
    {i \in 1 .. Len(text) - 1 : text[i] = "http://" /\ text[i + 1] # " "}

Min(S) == CHOOSE x \in S : \A y \in S : x <= y

RECURSIVE RunEnd(_, _)
RunEnd(text, i) ==
    IF i < Len(text) /\ text[i + 1] # " " THEN RunEnd(text, i + 1) ELSE i

url_match(text) ==
    IF MatchStarts(text) = {} THEN <<>>
    ELSE LET i == Min(MatchStarts(text)) IN SubSeq(text, i, RunEnd(text, i))

\* The directory part of a file path.
dirname(path) == path.dir

\* [k for k in (...) if not os.getenv(k)]
RECURSIVE missing_from(_, _)
missing_from(vars, e) ==
    IF vars = <<>> THEN <<>>
    ELSE (IF Head(vars) \in e THEN <<>> ELSE <<Head(vars)>>) \o missing_from(Tail(vars), e)

\* Variant of missing_env that does not look at the first variable.
missing_env_skips_first(e) == missing_from(Tail(EnvVars), e)

missing_env(e) == missing_from(EnvVars, e)

\* tg_app's handlers, in the order they were added (one group: the first that
\* matches handles the update).
cmd_start_matches(u) ==
    u.hasMsg /\ u.cmdEntity /\ u.text # <<>> /\ u.text[1] = "/start"

on_text_matches(u) == u.hasMsg /\ u.text # <<>> /\ ~u.cmdEntity

\* Variant of Route with the text handler added first and without ~filters.COMMAND.
Route_text_first(u) ==
    IF u.hasMsg /\ u.text # <<>> THEN "on_text"
    ELSE IF cmd_start_matches(u) THEN "cmd_start"
    ELSE "none"

Route(u) ==
    IF cmd_start_matches(u) THEN "cmd_start"
    ELSE IF on_text_matches(u) THEN "on_text"
    ELSE "none"

\* ------------------------------------------------------------- state
VARIABLES rq, fs, env

vars == <<rq, fs, env>>

Idle ==
    [kind |-> "none", pc |-> "idle", secret |-> "absent", body |-> NoMessage,
     url |-> <<>>, status |-> 0, detail |-> <<>>, parsed |-> FALSE,
     dispatched |-> FALSE, handler |-> "none", replies |-> <<>>, calls |-> <<>>,
     tmpdir |-> 0, path |-> NoPath, exc |-> "", total |-> 0, sent |-> 0,
     response |-> FALSE, completed |-> FALSE, vid |-> "", removed |-> {}]

WebhookRequest(secret, body) ==
    [Idle EXCEPT !.kind = "webhook", !.pc = "auth", !.secret = secret,
                 !.body = body, !.path = Unbound]

UrlUploadRequest(url) ==
    [Idle EXCEPT !.kind = "url_upload", !.pc = "validate", !.url = url,
                 !.path = Unbound]

Inputs ==
    {WebhookRequest(s, b) : s \in SecretHeaders, b \in Bodies} \cup
    {UrlUploadRequest(u) : u \in UrlFields}

MediaInputs ==
    {WebhookRequest(WEBHOOK_SECRET_TOKEN,
                    [json |-> TRUE, hasMsg |-> TRUE, text |-> SampleUrl,
                     cmdEntity |-> FALSE]),
     UrlUploadRequest(SampleUrl)}

Init ==
    /\ rq = [r \in Req |-> Idle]
    /\ fs = {}
    /\ env \in SUBSET EnvNames

InitMedia ==
    /\ rq = [r \in Req |-> Idle]
    /\ fs = {}
    /\ env = EnvNames

Update(r, rec) ==
    /\ rq' = [rq EXCEPT ![r] = rec]
    /\ UNCHANGED env
\* ------------------------------------------------------------- arrival
\* Requests are numbered in their order of arrival.
IsNextToArrive(r) ==
    /\ rq[r].pc = "idle"
    /\ \A q \in Req : q < r => rq[q].pc # "idle"

\* One request in isolation: any input.
Receive(r) ==
    /\ IsNextToArrive(r)
    /\ \A q \in Req : rq[q].pc = "idle"
    /\ \E in \in Inputs : Update(r, in)
    /\ UNCHANGED fs

\* Requests that enter the Media Pipeline, any number of them in flight.
ReceiveMedia(r) ==
    /\ IsNextToArrive(r)
    /\ \E in \in MediaInputs : Update(r, in)
    /\ UNCHANGED fs

\* One request that enters the Media Pipeline, in isolation.
ReceiveOneMedia(r) ==
    /\ \A q \in Req : rq[q].pc = "idle"
    /\ ReceiveMedia(r)

\* ------------------------------------------------------------- POST /telegram/webhook
\* The secret check. An absent header reads as None, which differs from the
\* configured (non-empty) secret.
\* Variant of the secret check that lets a request without the header through.
secret_rejected_if_present(secret) ==
    secret # "absent" /\ secret # WEBHOOK_SECRET_TOKEN

secret_rejected(secret) == secret # WEBHOOK_SECRET_TOKEN

Authenticate(r) ==
    /\ rq[r].pc = "auth"
    /\ IF secret_rejected(rq[r].secret)
       THEN Update(r, [rq[r] EXCEPT !.status = 401, !.detail = <<"Invalid secret">>,
                                    !.pc = "done"])
       ELSE Update(r, [rq[r] EXCEPT !.pc = "parse"])
    /\ UNCHANGED fs

\* request.body(), json.loads and Update.de_json. json.loads raises on a body that
\* is not JSON; nothing catches it, so the framework answers 500.
Parse(r) ==
    /\ rq[r].pc = "parse"
    /\ IF ~rq[r].body.json
       THEN Update(r, [rq[r] EXCEPT !.parsed = TRUE, !.status = 500,
                                    !.detail = <<"Internal Server Error">>,
                                    !.pc = "done"])
       ELSE Update(r, [rq[r] EXCEPT !.parsed = TRUE, !.pc = "dispatch"])
    /\ UNCHANGED fs

\* tg_app.process_update: the first handler that matches gets the update.
Dispatch(r) ==
    /\ rq[r].pc = "dispatch"
    /\ LET h == Route(rq[r].body)
       IN  Update(r, [rq[r] EXCEPT !.dispatched = TRUE, !.handler = h,
                                   !.pc = IF h = "none" THEN "respond" ELSE h])
    /\ UNCHANGED fs

\* return Response(status_code=200). An exception a handler raised was taken by
\* process_update and does not reach the route.
Respond(r) ==
    /\ rq[r].pc = "respond"
    /\ Update(r, [rq[r] EXCEPT !.status = 200, !.pc = "done"])
    /\ UNCHANGED fs

\* ------------------------------------------------------------- chat handlers
\* replies logs every reply_text call, whether the transport delivers it or raises;
\* completed records that the platform answered the last chunk.
cmd_start(r) ==
    /\ rq[r].pc = "cmd_start"
    /\ Update(r, [rq[r] EXCEPT !.replies = Append(@, GREETING), !.pc = "respond"])
    /\ UNCHANGED fs

\* on_text up to the try statement.
on_text(r) ==
    /\ rq[r].pc = "on_text"
    /\ LET msg == rq[r].body
           text == strip(msg.text)
           url == url_match(text)
       IN  IF ~msg.hasMsg \/ msg.text = <<>>
           THEN Update(r, [rq[r] EXCEPT !.pc = "respond"])
           ELSE IF url # <<>>
           THEN \/ Update(r, [rq[r] EXCEPT !.url = url,
                                           !.replies = Append(@, PROCESSING),
                                           !.pc = "fetch"])
                \/ Update(r, [rq[r] EXCEPT !.url = url,
                                           !.replies = Append(@, PROCESSING),
                                           !.exc = "TransportError",
                                           !.pc = "respond"])
           ELSE Update(r, [rq[r] EXCEPT !.replies = Append(@, process_text(text)),
                                        !.pc = "respond"])
    /\ UNCHANGED fs

\* vid came back: the share link is replied; a reply that raises is caught by the
\* except clause like any other exception of the try block.
reply_link(r) ==
    /\ rq[r].pc = "link"
    /\ \/ Update(r, [rq[r] EXCEPT !.replies = Append(@, LinkReply(rq[r].vid)),
                                   !.pc = "finally"])
       \/ Update(r, [rq[r] EXCEPT !.replies = Append(@, LinkReply(rq[r].vid)),
                                   !.exc = "TransportError", !.pc = "except"])
    /\ UNCHANGED fs
\* ------------------------------------------------------------- download_video
\* tempfile.mkdtemp: a directory under a name that does not exist yet, or an
\* OSError. calls logs the invocations of download_video and upload_to_youtube.
\* Variant of mkdtemp that does not look at what exists.
mkdtemp_any_name == Names

mkdtemp_names == Names \ fs

Fetch(r) ==
    /\ rq[r].pc = "fetch"
    /\ \/ \E d \in mkdtemp_names :
            /\ fs' = fs \cup {d}
            /\ Update(r, [rq[r] EXCEPT !.calls = Append(@, "fetch"), !.tmpdir = d,
                                       !.pc = "extract"])
       \/ /\ UNCHANGED fs
          /\ Update(r, [rq[r] EXCEPT !.calls = Append(@, "fetch"),
                                     !.exc = "OSError", !.pc = "except"])

\* Variant of Extract in which a failed download is swallowed and the flow goes on.
Extract_swallows_error(r) ==
    /\ rq[r].pc = "extract"
    /\ \/ Update(r, [rq[r] EXCEPT !.path = FileIn(rq[r].tmpdir), !.pc = "publish"])
       \/ Update(r, [rq[r] EXCEPT !.exc = "DownloadError", !.pc = "publish"])
    /\ UNCHANGED fs

\* extract_info and prepare_filename: the file lies in tmpdir and its name is
\* returned and bound to path, or the download raises.
Extract(r) ==
    /\ rq[r].pc = "extract"
    /\ \/ Update(r, [rq[r] EXCEPT !.path = FileIn(rq[r].tmpdir), !.pc = "publish"])
       \/ Update(r, [rq[r] EXCEPT !.exc = "DownloadError", !.pc = "except"])
    /\ UNCHANGED fs

\* ------------------------------------------------------------- upload_to_youtube
\* Up to response = None. MediaFileUpload reads the size of the file: total is
\* the number of chunks of 1024 * 1024 bytes it takes.
Publish(r) ==
    /\ rq[r].pc = "publish"
    /\ \E n \in 1 .. MaxChunks :
            Update(r, [rq[r] EXCEPT !.calls = Append(@, "publish"), !.total = n,
                                    !.sent = 0, !.response = FALSE, !.pc = "chunk"])
    /\ UNCHANGED fs

\* while response is None
in_loop(rec) == ~rec.response

\* The locals of upload_to_youtube are gone once it returns or raises.
Leave(rec) == [rec EXCEPT !.total = 0, !.sent = 0, !.response = FALSE]

\* Variant of NextChunk in which the last chunk's response is lost and the
\* transfer starts over.
NextChunk_restarts(r) ==
    /\ rq[r].pc = "chunk"
    /\ in_loop(rq[r])
    /\ \/ /\ env = EnvNames
          /\ rq[r].sent < rq[r].total
          /\ Update(r, [rq[r] EXCEPT
                 !.sent = IF rq[r].sent + 1 = rq[r].total THEN 0 ELSE @ + 1])
       \/ Update(r, [Leave(rq[r]) EXCEPT !.exc = "HttpError", !.pc = "except"])
    /\ UNCHANGED fs

\* request.next_chunk(): one more chunk is transferred, and the response is there
\* once the last one is; or the call raises. Without the credentials the token
\* exchange fails, so the call can only raise.
NextChunk(r) ==
    /\ rq[r].pc = "chunk"
    /\ in_loop(rq[r])
    /\ \/ /\ env = EnvNames
          /\ rq[r].sent < rq[r].total
          /\ Update(r, [rq[r] EXCEPT !.sent = @ + 1,
                                     !.response = (rq[r].sent + 1 = rq[r].total),
                                     !.completed = (rq[r].sent + 1 = rq[r].total)])
       \/ Update(r, [Leave(rq[r]) EXCEPT !.exc = "HttpError", !.pc = "except"])
    /\ UNCHANGED fs

\* return response.get("id"), and what the caller does with it: on_text goes on
\* to reply, url_upload_endpoint returns its result (the finally clause then runs).
UploadReturn(r) ==
    /\ rq[r].pc = "chunk"
    /\ ~in_loop(rq[r])
    /\ IF rq[r].kind = "webhook"
       THEN Update(r, [Leave(rq[r]) EXCEPT !.vid = VideoId, !.pc = "link"])
       ELSE Update(r, [Leave(rq[r]) EXCEPT !.vid = VideoId, !.status = 200,
                                           !.detail = <<"ok", VideoId>>,
                                           !.pc = "finally"])
    /\ UNCHANGED fs

\* ------------------------------------------------------------- except / finally
\* Variant of Except that reports the failure and tries the fetch again.
Except_retries(r) ==
    /\ rq[r].pc = "except"
    /\ IF rq[r].kind = "webhook"
       THEN Update(r, [rq[r] EXCEPT !.replies = Append(@, ErrorReply(rq[r].exc)),
                                    !.pc = "fetch"])
       ELSE Update(r, [rq[r] EXCEPT !.status = 500, !.detail = <<rq[r].exc>>,
                                    !.pc = "fetch"])
    /\ UNCHANGED fs

Except(r) ==
    /\ rq[r].pc = "except"
    /\ IF rq[r].kind = "webhook"
       THEN Update(r, [rq[r] EXCEPT !.replies = Append(@, ErrorReply(rq[r].exc)),
                                    !.pc = "finally"])
       ELSE Update(r, [rq[r] EXCEPT !.status = 500, !.detail = <<rq[r].exc>>,
                                    !.pc = "finally"])
    /\ UNCHANGED fs

AfterFinally(rec) == IF rec.kind = "webhook" THEN "respond" ELSE "done"

\* if path: tmpdir = os.path.dirname(path); if os.path.exists(tmpdir): ...
\* Reading a path that was never bound raises, and the inner except passes.
Finally(r) ==
    /\ rq[r].pc = "finally"
    /\ LET path == rq[r].path
       IN  IF path.bound /\ path # NoPath /\ dirname(path) \in fs
           THEN Update(r, [rq[r] EXCEPT !.pc = "rmtree"])
           ELSE Update(r, [rq[r] EXCEPT !.pc = AfterFinally(rq[r])])
    /\ UNCHANGED fs

\* shutil.rmtree(tmpdir, ignore_errors=True)
Rmtree(r) ==
    /\ rq[r].pc = "rmtree"
    /\ fs' = fs \ {dirname(rq[r].path)}
    /\ Update(r, [rq[r] EXCEPT !.removed = @ \cup {dirname(rq[r].path)},
                               !.pc = AfterFinally(rq[r])])

\* ------------------------------------------------------------- POST /url-upload
Validate(r) ==
    /\ rq[r].pc = "validate"
    /\ IF rq[r].url = <<>>
       THEN Update(r, [rq[r] EXCEPT !.status = 400,
                                    !.detail = <<"Missing 'url' in body">>,
                                    !.pc = "done"])
       ELSE IF missing_env(env) # <<>>
       THEN Update(r, [rq[r] EXCEPT !.status = 500,
                                    !.detail = <<"Missing env vars: ">> \o missing_env(env),
                                    !.pc = "done"])
       ELSE Update(r, [rq[r] EXCEPT !.path = NoPath, !.pc = "fetch"])
    /\ UNCHANGED fs

\* ------------------------------------------------------------- specifications
MediaStep(r) ==
    \/ Authenticate(r)
    \/ Parse(r)
    \/ Dispatch(r)
    \/ on_text(r)
    \/ Validate(r)
    \/ Fetch(r)
    \/ Extract(r)
    \/ Publish(r)
    \/ NextChunk(r)
    \/ UploadReturn(r)
    \/ reply_link(r)
    \/ Except(r)
    \/ Finally(r)
    \/ Rmtree(r)
    \/ Respond(r)

Step(r) == MediaStep(r) \/ cmd_start(r)

\* One request of any kind, with any input.
Next == \E r \in Req : Receive(r) \/ Step(r)

Spec == Init /\ [][Next]_vars

\* Media Pipeline requests, interleaved at every step.
NextMedia == \E r \in Req : ReceiveMedia(r) \/ MediaStep(r)

MediaSpec == InitMedia /\ [][NextMedia]_vars

\* One Media Pipeline request, with the credentials set or not. A request that can
\* take a step is resumed: every call it waits for returns or raises.
NextUpload == \E r \in Req : ReceiveOneMedia(r) \/ MediaStep(r)

LiveSpec == Init /\ [][NextUpload]_vars /\ \A r \in Req : WF_vars(MediaStep(r))
\* ------------------------------------------------------------- properties
IsWebhook(r) == rq[r].kind = "webhook"
IsUrlUpload(r) == rq[r].kind = "url_upload"
Completed(r) == rq[r].pc = "done"
NoMediaEffect(r) == rq[r].calls = <<>> /\ rq[r].tmpdir = 0 /\ rq[r].removed = {}
FetchFailed(r) == rq[r].exc \in {"OSError", "DownloadError"}
PublishFailed(r) == rq[r].exc = "HttpError"
CallsInOrder(r) == rq[r].calls \in {<<>>, <<"fetch">>, <<"fetch", "publish">>}
IsLinkReply(m) == Len(m) = 3 /\ m[1] = "Uploaded successfully!"
HasLinkReply(r) == \E i \in 1 .. Len(rq[r].replies) : IsLinkReply(rq[r].replies[i])
IsGreetingCommand(u) ==
    u.json /\ u.hasMsg /\ u.cmdEntity /\ u.text # <<>> /\ u.text[1] = "/start"
ContainsUrl(t) ==
    \E i \in 1 .. Len(t) - 1 : t[i] = "http://" /\ t[i + 1] # " "

\* s is t without its leading and trailing whitespace.
IsStripOf(s, t) ==
    /\ s = <<>> \/ (s[1] # " " /\ s[Len(s)] # " ")
    /\ \E i \in 1 .. Len(t) + 1 :
          /\ i + Len(s) - 1 <= Len(t)
          /\ \A k \in 1 .. Len(s) : s[k] = t[i + k - 1]
          /\ \A k \in 1 .. Len(t) : (k < i \/ k > i + Len(s) - 1) => t[k] = " "

\* C1: a webhook request whose secret header is absent or differs from the
\* configured secret is answered 401 and nothing else happens: no body parsing,
\* no routing, no reply, no fetch (no temporary directory) and no publish.
C1_UnauthorizedHasNoEffect ==
    \A r \in Req :
        (IsWebhook(r) /\ rq[r].secret # WEBHOOK_SECRET_TOKEN) =>
            /\ rq[r].pc \in {"auth", "done"}
            /\ Completed(r) => rq[r].status = 401
            /\ ~rq[r].parsed /\ ~rq[r].dispatched /\ rq[r].handler = "none"
            /\ rq[r].replies = <<>>
            /\ NoMediaEffect(r)

C1_Witness ==
    \E r \in Req :
        /\ IsWebhook(r) /\ rq[r].secret = "absent" /\ Completed(r)
        /\ rq[r].status = 401
        /\ rq[r].body.json /\ ContainsUrl(rq[r].body.text)

\* C2: when a Media Pipeline request completes, the temporary directory its
\* download_video created no longer exists, whatever the outcome.
C2_TempDirRemoved ==
    \A r \in Req :
        (Completed(r) /\ rq[r].tmpdir # 0) => rq[r].tmpdir \notin fs

\* C3: fetch is invoked before publish, each at most once per request, and publish
\* is never invoked in a request whose fetch failed.
C3_FetchThenPublish ==
    \A r \in Req :
        /\ CallsInOrder(r)
        /\ FetchFailed(r) => rq[r].calls = <<"fetch">>

C3_Witness ==
    \E r \in Req :
        /\ IsWebhook(r) /\ Completed(r)
        /\ rq[r].calls = <<"fetch", "publish">>
        /\ HasLinkReply(r)

\* C4: a webhook request with the correct secret and a body that is not
\* well-formed JSON is answered 400 and no update is dispatched.
C4_MalformedIs400 ==
    \A r \in Req :
        (IsWebhook(r) /\ rq[r].secret = WEBHOOK_SECRET_TOKEN /\ ~rq[r].body.json
         /\ Completed(r)) =>
            rq[r].status = 400 /\ ~rq[r].dispatched

\* C5: POST /url-upload with no url is answered 400; with a url and some of the
\* three credentials unset, 500 with a detail naming exactly the unset ones; in
\* both cases nothing is fetched, created or published.
C5_ValidatesBeforeWork ==
    \A r \in Req :
        IsUrlUpload(r) =>
            /\ rq[r].url = <<>> =>
                  /\ rq[r].pc \in {"validate", "done"}
                  /\ Completed(r) => rq[r].status = 400
                  /\ NoMediaEffect(r)
            /\ (rq[r].url # <<>> /\ env # EnvNames) =>
                  /\ rq[r].pc \in {"validate", "done"}
                  /\ Completed(r) =>
                        /\ rq[r].status = 500
                        /\ rq[r].detail[1] = "Missing env vars: "
                        /\ {rq[r].detail[i] : i \in 2 .. Len(rq[r].detail)}
                              = EnvNames \ env
                        /\ Len(rq[r].detail) = 1 + Cardinality(EnvNames \ env)
                  /\ NoMediaEffect(r)

C5_Witness ==
    \E r \in Req :
        /\ IsUrlUpload(r) /\ Completed(r) /\ rq[r].url # <<>>
        /\ rq[r].status = 500
        /\ rq[r].detail = <<"Missing env vars: ", "YT_CLIENT_ID", "YT_REFRESH_TOKEN">>
\* A text message that went through the dispatcher: a message with a text, received
\* with the right secret, whose request completed.
DispatchedText(r) ==
    /\ IsWebhook(r) /\ Completed(r) /\ rq[r].dispatched
    /\ rq[r].body.hasMsg /\ rq[r].body.text # <<>>

\* C6 as claimed: a dispatched text message without a URL, the greeting command
\* apart, gets exactly one reply: "bhola " followed by the text exactly as
\* received.
C6_EchoAsReceived ==
    \A r \in Req :
        (DispatchedText(r) /\ ~ContainsUrl(rq[r].body.text)
         /\ ~IsGreetingCommand(rq[r].body)) =>
            rq[r].replies = << <<"bhola ">> \o rq[r].body.text >>

\* C6 as amended: a dispatched text message that is not a bot command and has no
\* URL gets exactly one reply, "bhola " followed by the text without its leading
\* and trailing whitespace; a command other than the greeting gets no reply.
C6_EchoStripped ==
    \A r \in Req :
        (DispatchedText(r) /\ ~ContainsUrl(rq[r].body.text)) =>
            /\ ~rq[r].body.cmdEntity =>
                  /\ Len(rq[r].replies) = 1
                  /\ Len(rq[r].replies[1]) >= 1
                  /\ rq[r].replies[1][1] = "bhola "
                  /\ IsStripOf(Tail(rq[r].replies[1]), rq[r].body.text)
            /\ (rq[r].body.cmdEntity /\ ~IsGreetingCommand(rq[r].body)) =>
                  rq[r].replies = <<>>

C6_Witness ==
    \E r \in Req :
        /\ DispatchedText(r)
        /\ rq[r].body.text = <<" ", "a", " ", " ">>
        /\ rq[r].replies = << <<"bhola ", "a">> >>

\* C7: the greeting command, received with the right secret, gets exactly the
\* static greeting reply; nothing is fetched, created or published, also when a
\* URL follows the command.
C7_GreetingOnly ==
    \A r \in Req :
        (IsWebhook(r) /\ rq[r].secret = WEBHOOK_SECRET_TOKEN
         /\ IsGreetingCommand(rq[r].body)) =>
            /\ Completed(r) => (rq[r].replies = <<GREETING>> /\ rq[r].status = 200)
            /\ rq[r].replies \in {<<>>, <<GREETING>>}
            /\ NoMediaEffect(r)

C7_Witness ==
    \E r \in Req :
        /\ IsWebhook(r) /\ Completed(r)
        /\ rq[r].body.cmdEntity
        /\ rq[r].body.text = <<"/start", " ", "http://", "a">>
        /\ rq[r].replies = <<GREETING>>

\* C8: a fetch or publish failure ends its request and is reported once: the chat
\* path sends one error reply with the failure detail and no share link,
\* POST /url-upload answers 500 with the detail, and neither fetch nor publish is
\* invoked a second time.
C8_FailureIsTerminal ==
    \A r \in Req :
        (FetchFailed(r) \/ PublishFailed(r)) =>
            /\ CallsInOrder(r)
            /\ ~HasLinkReply(r)
            /\ rq[r].vid = ""
            /\ (Completed(r) /\ IsWebhook(r)) =>
                  rq[r].replies = <<PROCESSING, <<"Error: ", rq[r].exc>> >>
            /\ (Completed(r) /\ IsUrlUpload(r)) =>
                  (rq[r].status = 500 /\ rq[r].detail = <<rq[r].exc>>)

C8_Witness ==
    \E r \in Req :
        /\ IsWebhook(r) /\ Completed(r) /\ PublishFailed(r)
        /\ rq[r].calls = <<"fetch", "publish">>
        /\ rq[r].replies = <<PROCESSING, <<"Error: ", "HttpError">> >>

\* A request holds the directory it created until it has removed it.
Holds(r) == rq[r].tmpdir # 0 /\ rq[r].tmpdir \notin rq[r].removed

\* C9 as claimed: the directory of a fetch differs from the directory of every
\* other request, in flight or earlier, and a request removes only its own.
C9_NeverReused ==
    \A r \in Req :
        /\ rq[r].removed \subseteq {rq[r].tmpdir}
        /\ Holds(r) => rq[r].tmpdir \in fs
        /\ \A q \in Req \ {r} :
              (rq[r].tmpdir # 0 /\ rq[q].tmpdir # 0) => rq[r].tmpdir # rq[q].tmpdir

\* C9 as amended: the directory of a fetch differs from every directory that still
\* exists, so from that of every other request in flight; a request removes only
\* the directory it created, and no directory is removed by another request
\* while its owner holds it.
C9_ExclusiveOwnership ==
    \A r \in Req :
        /\ rq[r].removed \subseteq {rq[r].tmpdir}
        /\ Holds(r) => rq[r].tmpdir \in fs
        /\ \A q \in Req \ {r} :
              (Holds(r) /\ Holds(q)) => rq[r].tmpdir # rq[q].tmpdir

C9_Witness ==
    \E r, q \in Req :
        /\ r # q
        /\ rq[r].removed = {rq[r].tmpdir} /\ rq[r].tmpdir # 0
        /\ rq[q].pc = "chunk" /\ Holds(q) /\ rq[q].tmpdir \in fs
        /\ rq[q].tmpdir # rq[r].tmpdir

\* C10: the chunk loop ends, by returning the id or by raising, and an id is
\* returned only after the platform answered the last chunk.
C10_LoopTerminates ==
    \A r \in Req :
        /\ (rq[r].pc = "chunk") ~> (rq[r].vid = VideoId \/ rq[r].exc = "HttpError")
        /\ [](rq[r].vid # "" => rq[r].completed)

C10_Witness ==
    \E r \in Req :
        /\ rq[r].vid = VideoId /\ rq[r].completed
        /\ rq[r].calls = <<"fetch", "publish">>
====
